---- MODULE Spec2Model ----
(***************************************************************************)
(* DermDetect AI: the patient / lesion session state of App.tsx, its       *)
(* persistence to localStorage, and the upload and comparison workflows of *)
(* PatientDetailView that call services/geminiService.                     *)
(*                                                                         *)
(* JavaScript values are modelled as follows.  A string is a TLA+ string;  *)
(* an optional field that is undefined (or whose key is missing) holds     *)
(* Undefined; a File, a Date, a data URL, an id and a JSON document are    *)
(* records; an optional File is the sequence <<>> or <<file>>.             *)
(* React state is committed, re-rendered and its effects are run within    *)
(* the step of the event handler or promise continuation that set it.      *)
(***************************************************************************)
EXTENDS Integers, Sequences, FiniteSets, TLC

VARIABLES
    now,                \* Date.now(), the wall clock in ms
    apiKey,             \* process.env.API_KEY is set
    store,              \* localStorage: keys users, patients, isLoggedIn
    storageFull,        \* localStorage.setItem throws QuotaExceededError
    isLoggedIn,         \* App state
    users,              \* App state
    view,               \* App state: "dashboard" | "patientDetail"
    patients,           \* App state
    selectedPatientId,  \* App state
    pdv,                \* state of the mounted PatientDetailView instance
    auth,               \* state of the mounted AuthView instance
    uploads,            \* handleImageUpload calls, in the order they started
    cmps                \* handleCompare calls, in the order they started

vars == <<now, apiKey, store, storageFull, isLoggedIn, users, view, patients,
          selectedPatientId, pdv, auth, uploads, cmps>>

(***************************************************************************)
(* Bounds of the model.                                                    *)
(***************************************************************************)
\* Date.now() at session start; later than every persisted image
T0 == 300
\* the clock advances at most this far
MaxTicks == 1
\* handleImageUpload calls in a run of the upload scenario
MaxUploads == 2
\* handleImageUpload calls in a run of the comparison scenario
MaxCompareUploads == 1
\* handleCompare calls in a run
MaxCompares == 1
\* patients in a run
MaxPatients == 4
\* handleCompare calls in a run of the repeated-comparison scenario
MaxRecompares == 2

(***************************************************************************)
(* Values.                                                                 *)
(***************************************************************************)
Undefined == "undefined"
Null == "null"

Min(a, b) == IF a <= b THEN a ELSE b

\* `p${n}`, `img_${n}`, `u${n}` and the literal ids 'p1', 'p2'
Id(pfx, n) == [pfx |-> pfx, n |-> n]
NullId == Id("null", 0)

\* the File objects a user can pick in ImageUploader
FileA == [name |-> <<"a.png">>, type |-> "image/png", bytes |-> "A"]
FileB == [name |-> <<"b.jpg">>, type |-> "image/jpeg", bytes |-> "B"]
Files == {FileA, FileB}

\* a Date object and its JSON.stringify form (toISOString, ms precision)
DateOf(ms) == [ms |-> ms]
ToISOString(date) == [iso |-> date.ms]
\* new Date(x) of an ISO string
NewDate(x) == [ms |-> x.iso]

\* the payload of a persisted image that is not a valid data URL
CorruptDataUrl == [mime |-> "", b64 |-> "corrupt"]

\* reader.readAsDataURL(file): "data:<type>;base64,<bytes>"
FileToDataUrl(file) == [mime |-> file.type, b64 |-> file.bytes]

\* fetch(dataUrl) rejects when the string is not a data URL
FetchOk(dataUrl) == dataUrl # CorruptDataUrl

\* new File([blob], filename, { type: blob.type })
DataUrlToFile(dataUrl, filename) ==
    [name |-> filename, type |-> dataUrl.mime, bytes |-> dataUrl.b64]

(***************************************************************************)
(* localStorage and the persistence helpers.                               *)
(***************************************************************************)
\* getItem(key) === null
NoItem == [kind |-> "absent"]
\* a stored string that JSON.parse rejects
Garbage == [kind |-> "garbage"]
\* the string JSON.stringify gives for the JSON value v
JsonText(v) == [kind |-> "json", val |-> v]

\* the JSON value null, also the JavaScript null held in a state
JsonNull == [json |-> "null"]

\* a faulty variant of StripFile: the image is saved as it is
StripFile_KeepFile(img) ==
    IF img.file # <<>> THEN img
    ELSE [id |-> img.id, imageDataUrl |-> img.imageDataUrl,
          timestamp |-> img.timestamp, analysisResult |-> img.analysisResult]

\* ({ file, ...rest }) => rest
StripFile(img) ==
    [id |-> img.id, imageDataUrl |-> img.imageDataUrl,
     timestamp |-> img.timestamp, analysisResult |-> img.analysisResult]

\* patients.map(p => ({...p, lesionImages: p.lesionImages.map(strip)}))
SerializablePatients(ps) ==
    [i \in 1..Len(ps) |->
        [ps[i] EXCEPT !.lesionImages =
            [j \in 1..Len(ps[i].lesionImages) |-> StripFile(ps[i].lesionImages[j])]]]

\* JSON.stringify of a timestamp: a Date gives its ISO string (toJSON), a
\* string is written as it is
StringifyTimestamp(t) == IF "ms" \in DOMAIN t THEN ToISOString(t) ELSE t

\* JSON.stringify of a serializable patient list
StringifyPatients(sps) ==
    JsonText([i \in 1..Len(sps) |->
        [sps[i] EXCEPT !.lesionImages =
            [j \in 1..Len(sps[i].lesionImages) |->
                [sps[i].lesionImages[j] EXCEPT !.timestamp = StringifyTimestamp(@)]]]])

\* JSON.stringify of the user list: strings only
StringifyUsers(us) == JsonText(us)

\* saveState(key, state): setItem may throw (quota), which is caught and logged
SaveState(st, key, text, ok) == IF ok THEN [st EXCEPT ![key] = text] ELSE st

\* an image object parsed from JSON has no file key
ParsedImage(j) ==
    [id |-> j.id, file |-> <<>>, imageDataUrl |-> j.imageDataUrl,
     timestamp |-> j.timestamp, analysisResult |-> j.analysisResult]

\* a faulty variant of Rehydrate: the timestamp stays the parsed ISO string
Rehydrate_KeepString(img) == img

\* img.timestamp = new Date(img.timestamp)
Rehydrate(img) == [img EXCEPT !.timestamp = NewDate(@)]

\* a faulty variant of LoadPatients: a text that cannot be parsed gives the
\* empty list
LoadPatients_NoFallback(st, defaultState) ==
    IF st.patients.kind = "absent" THEN defaultState
    ELSE IF st.patients.kind = "garbage" THEN <<>>
    ELSE LET state == st.patients.val IN
         [i \in 1..Len(state) |->
            [state[i] EXCEPT !.lesionImages =
                [j \in 1..Len(state[i].lesionImages) |->
                    [id |-> state[i].lesionImages[j].id, file |-> <<>>,
                     imageDataUrl |-> state[i].lesionImages[j].imageDataUrl,
                     timestamp |-> NewDate(state[i].lesionImages[j].timestamp),
                     analysisResult |-> state[i].lesionImages[j].analysisResult]]]]

\* loadState('patients', defaultState)
LoadPatients(st, defaultState) ==
    IF st.patients.kind # "json" THEN defaultState
    ELSE LET state == st.patients.val IN
         [i \in 1..Len(state) |->
            [state[i] EXCEPT !.lesionImages =
                [j \in 1..Len(state[i].lesionImages) |->
                    Rehydrate(ParsedImage(state[i].lesionImages[j]))]]]

\* loadState('users', defaultState)
LoadUsers(st, defaultState) ==
    IF st.users.kind # "json" THEN defaultState ELSE st.users.val

(***************************************************************************)
(* Mock data and the default user.                                         *)
(***************************************************************************)
initialPatients ==
    << [id |-> Id("p", 1), name |-> "John Doe", dob |-> "1985-05-23",
        lesionImages |-> <<>>, patientId |-> "JD-001", gender |-> "Male",
        bloodType |-> "O+", existingConditions |-> "None reported"],
       [id |-> Id("p", 2), name |-> "Jane Smith", dob |-> "1992-11-14",
        lesionImages |-> <<>>, patientId |-> Undefined, gender |-> Undefined,
        bloodType |-> Undefined, existingConditions |-> Undefined] >>

defaultUserEmail == "doctor@clinic.com"
defaultUser ==
    [id |-> Id("user_default_doctor", 0), name |-> "Dr. Clinic",
     email |-> defaultUserEmail, password |-> "12345"]

(***************************************************************************)
(* services/geminiService: what the external model can answer.             *)
(***************************************************************************)
\* response.text: a document of the schema, an object lacking required
\* fields, the document null, and a text that is not JSON
ResponseTexts == {"full", "partial", "null", "garbage"}

ErrApiKey == "API_KEY environment variable is not set."
ErrFormat == "The AI returned an unexpected response format. Please try again."
ErrFormatCmp ==
    "The AI returned an unexpected response format for the comparison. Please try again."
ErrNetwork == "Failed to fetch"
ErrUnknown == "An unknown error occurred."
ErrUnknownCmp == "An unknown error occurred during comparison."

FullAnalysis ==
    [conditionName |-> "Eczema", confidence |-> "High", description |-> "d",
     recommendations |-> <<"disclaimer">>]
FullComparison ==
    [changeSummary |-> "s", keyObservations |-> <<"o">>, recommendation |-> "r",
     updatedConditionAssessment |-> "stable", postComparisonCondition |-> "Eczema"]

\* JSON.parse(text) throws
ParseThrows(text) == text = "garbage"

\* JSON.parse(jsonText) as AnalysisResult: a cast, nothing is validated
ParseAnalysis(text) ==
    CASE text = "full" -> FullAnalysis
      [] text = "partial" -> [conditionName |-> "Eczema"]
      [] OTHER -> JsonNull

\* JSON.parse(jsonText) as ComparisonResult
ParseComparison(text) ==
    CASE text = "full" -> FullComparison
      [] text = "partial" -> [changeSummary |-> "s"]
      [] OTHER -> JsonNull

(***************************************************************************)
(* Helpers over the App state.                                             *)
(***************************************************************************)
\* the index of the first element of seq satisfying Test, 0 when none
RECURSIVE FindFrom(_, _, _)
FindFrom(seq, id, i) ==
    IF i > Len(seq) THEN 0
    ELSE IF seq[i].id = id THEN i ELSE FindFrom(seq, id, i + 1)

\* index of patients.find(p => p.id === id), 0 when undefined
FindIndex(seq, id) == FindFrom(seq, id, 1)

\* some user of us has this email
EmailExists(us, email) == \E i \in 1..Len(us) : us[i].email = email

\* a faulty variant of CredentialsMatch: the password is not compared
CredentialsMatch_EmailOnly(us, email, password) ==
    \E i \in 1..Len(us) : us[i].email = email

\* users.find(u => u.email === email && u.password === password) is defined
CredentialsMatch(us, email, password) ==
    \E i \in 1..Len(us) : us[i].email = email /\ us[i].password = password

\* the state a PatientDetailView instance starts with
InitialPdv ==
    [isUploading |-> FALSE, error |-> Null, compareId1 |-> NullId,
     compareId2 |-> NullId, isComparing |-> FALSE, comparisonResult |-> JsonNull]

\* the state an AuthView instance starts with
InitialAuth == [error |-> Null, isLoading |-> FALSE, pending |-> <<>>]

\* a workflow of a page that has been reloaded
Gone == [status |-> "gone"]

\* a workflow whose component instance has been unmounted: its setState
\* calls no longer reach any state
Unmount(flows) ==
    [i \in 1..Len(flows) |->
        IF flows[i].status = "gone" THEN flows[i] ELSE [flows[i] EXCEPT !.live = FALSE]]

(***************************************************************************)
(* App: initial state and the effects that run on mount.                   *)
(***************************************************************************)
\* a faulty variant of EnsureDefaultUser: the default user is always added
EnsureDefaultUser_Always(prevUsers) == Append(prevUsers, defaultUser)

\* the user-list effect: add the default user unless its email is there
EnsureDefaultUser(prevUsers) ==
    IF EmailExists(prevUsers, defaultUserEmail) THEN prevUsers
    ELSE Append(prevUsers, defaultUser)

\* a faulty variant of PersistPatients: the effect is missing
PersistPatients_Skip(st, ps, ok) == st

\* the patients persistence effect
PersistPatients(st, ps, ok) ==
    SaveState(st, "patients", StringifyPatients(SerializablePatients(ps)), ok)

\* the users persistence effect
PersistUsers(st, us, ok) == SaveState(st, "users", StringifyUsers(us), ok)

\* the login-flag effect
PersistLoginFlag(st, flag) ==
    [st EXCEPT !.isLoggedIn = IF flag THEN JsonText(TRUE) ELSE NoItem]

\* useState initialisers of App
MountIsLoggedIn(st) == st.isLoggedIn.kind # "absent"
MountUsers(st) == EnsureDefaultUser(LoadUsers(st, <<>>))
MountPatients(st) == LoadPatients(st, initialPatients)

\* localStorage after the first render's effects and the re-render that
\* follows the seeding of the default user
MountStore(st, okU0, okU, okP) ==
    PersistLoginFlag(
        PersistPatients(
            PersistUsers(PersistUsers(st, LoadUsers(st, <<>>), okU0), MountUsers(st), okU),
            MountPatients(st), okP),
        MountIsLoggedIn(st))

(***************************************************************************)
(* What localStorage can hold when the page is first opened.               *)
(***************************************************************************)
\* an image saved by an earlier session (serialized: no file, ISO timestamp)
SavedImage(n, dataUrl) ==
    [id |-> Id("img_", n), imageDataUrl |-> dataUrl,
     timestamp |-> ToISOString(DateOf(n)), analysisResult |-> FullAnalysis]

\* the patients an earlier session saved: the first patient holds
\* [img_200, img_100]; the second holds an image whose payload is damaged
SavedPatients ==
    << [initialPatients[1] EXCEPT !.lesionImages =
            << SavedImage(200, FileToDataUrl(FileA)),
               SavedImage(100, FileToDataUrl(FileB)) >>],
       [initialPatients[2] EXCEPT !.lesionImages =
            << SavedImage(50, CorruptDataUrl) >>] >>

\* a first visit, a damaged store, and the stores of a logged-in user with
\* the seeded patients and with the saved patients
FreshStore == [users |-> NoItem, patients |-> NoItem, isLoggedIn |-> NoItem]
DamagedStore == [users |-> Garbage, patients |-> Garbage, isLoggedIn |-> NoItem]
SeededStore ==
    [users |-> JsonText(<<defaultUser>>), patients |-> NoItem,
     isLoggedIn |-> JsonText(TRUE)]
ReturningStore ==
    [users |-> JsonText(<<defaultUser>>), patients |-> JsonText(SavedPatients),
     isLoggedIn |-> JsonText(TRUE)]
InitialStores == {FreshStore, DamagedStore, SeededStore, ReturningStore}

InitFrom(stores, full) ==
    \E st \in stores, key \in BOOLEAN :
        /\ now = T0
        /\ apiKey = key
        /\ storageFull = full
        /\ isLoggedIn = MountIsLoggedIn(st)
        /\ users = MountUsers(st)
        /\ patients = MountPatients(st)
        /\ store = MountStore(st, ~full, ~full, ~full)
        /\ view = "dashboard"
        /\ selectedPatientId = NullId
        /\ pdv = InitialPdv
        /\ auth = InitialAuth
        /\ uploads = <<>>
        /\ cmps = <<>>

Init == \E full \in BOOLEAN : InitFrom(InitialStores, full)

\* the origin's storage quota is used up, or space is freed again
StorageFills ==
    /\ ~storageFull
    /\ storageFull' = TRUE
    /\ UNCHANGED <<now, apiKey, store, isLoggedIn, users, view, patients,
                   selectedPatientId, pdv, auth, uploads, cmps>>

StorageFrees ==
    /\ storageFull
    /\ storageFull' = FALSE
    /\ UNCHANGED <<now, apiKey, store, isLoggedIn, users, view, patients,
                   selectedPatientId, pdv, auth, uploads, cmps>>

\* the clock advances
Tick ==
    /\ now < T0 + MaxTicks
    /\ now' = now + 1
    /\ UNCHANGED <<apiKey, storageFull, store, isLoggedIn, users, view, patients,
                   selectedPatientId, pdv, auth, uploads, cmps>>

\* the page is reloaded: every pending continuation is lost and App mounts
\* again from localStorage
Reload ==
        /\ isLoggedIn' = MountIsLoggedIn(store)
        /\ users' = MountUsers(store)
        /\ patients' = MountPatients(store)
        /\ store' = MountStore(store, ~storageFull, ~storageFull, ~storageFull)
        /\ view' = "dashboard"
        /\ selectedPatientId' = NullId
        /\ pdv' = InitialPdv
        /\ auth' = InitialAuth
        /\ uploads' = [i \in 1..Len(uploads) |-> Gone]
        /\ cmps' = [i \in 1..Len(cmps) |-> Gone]
        /\ UNCHANGED <<now, apiKey, storageFull>>

(***************************************************************************)
(* App: navigation and patient handlers.                                   *)
(***************************************************************************)
\* selectedPatient = patients.find(p => p.id === selectedPatientId)
SelectedIndex == FindIndex(patients, selectedPatientId)

\* renderContent shows a PatientDetailView
DetailMounted ==
    isLoggedIn /\ view = "patientDetail" /\ SelectedIndex # 0

DashboardMounted == isLoggedIn /\ view = "dashboard"

\* a PatientCard is clicked
handleSelectPatient(i) ==
    /\ DashboardMounted
    /\ selectedPatientId' = patients[i].id
    /\ view' = "patientDetail"
    /\ pdv' = InitialPdv
    /\ UNCHANGED <<now, apiKey, storageFull, store, isLoggedIn, users, patients, auth, uploads,
                   cmps>>

handleBackToDashboard ==
    /\ DetailMounted
    /\ selectedPatientId' = NullId
    /\ view' = "dashboard"
    /\ pdv' = InitialPdv
    /\ uploads' = Unmount(uploads)
    /\ cmps' = Unmount(cmps)
    /\ UNCHANGED <<now, apiKey, storageFull, store, isLoggedIn, users, patients, auth>>

\* the fields AddPatientModal's form always supplies
FormData(name, dob) ==
    [name |-> name, dob |-> dob, patientId |-> "", gender |-> "Prefer not to say",
     bloodType |-> "", existingConditions |-> ""]

\* { ...patientData, id: `p${Date.now()}`, lesionImages: [] }
NewPatient(data, t) ==
    [id |-> Id("p", t), name |-> data.name, dob |-> data.dob, lesionImages |-> <<>>,
     patientId |-> data.patientId, gender |-> data.gender,
     bloodType |-> data.bloodType, existingConditions |-> data.existingConditions]

\* setPatients(prev => [newPatient, ...prev])
PrependPatient(prev, newPatient) == <<newPatient>> \o prev

\* a faulty variant of handleAddPatient: the form is saved whatever it holds
handleAddPatient_NoGuard(name, dob) ==
    /\ DashboardMounted
    /\ patients' = PrependPatient(patients, NewPatient(FormData(name, dob), now))
    /\ store' = PersistPatients(store, patients', ~storageFull)
    /\ UNCHANGED <<now, apiKey, storageFull, isLoggedIn, users, view, selectedPatientId, pdv,
                   auth, uploads, cmps>>

\* AddPatientModal.handleSave -> handleAddPatient, then the persistence effect
handleAddPatient(name, dob) ==
    /\ DashboardMounted
    /\ name # "" /\ dob # ""
    /\ patients' = PrependPatient(patients, NewPatient(FormData(name, dob), now))
    /\ store' = PersistPatients(store, patients', ~storageFull)
    /\ UNCHANGED <<now, apiKey, storageFull, isLoggedIn, users, view, selectedPatientId, pdv,
                   auth, uploads, cmps>>

(***************************************************************************)
(* AuthView and the auth handlers of App.                                  *)
(***************************************************************************)
ErrCredentials == "Invalid credentials. Please try again."
ErrEmailExists == "An account with this email already exists."
ErrPasswords == "Passwords do not match."

\* what a user can type into the form
Emails == {defaultUserEmail, "new@clinic.com"}
Passwords == {"12345", "secret"}

\* handleSubmit in login mode: onLogin is called and awaits its delay;
\* the handler closes over the users of this render
SubmitLogin(email, password) ==
    /\ ~isLoggedIn /\ ~auth.isLoading
    /\ auth' = [error |-> Null, isLoading |-> TRUE,
                pending |-> <<[kind |-> "login", name |-> "", email |-> email,
                               password |-> password, users |-> users]>>]
    /\ UNCHANGED <<now, apiKey, storageFull, store, isLoggedIn, users, view, patients,
                   selectedPatientId, pdv, uploads, cmps>>

\* handleSubmit in sign-up mode
SubmitSignUp(name, email, password, confirmPassword) ==
    /\ ~isLoggedIn /\ ~auth.isLoading
    /\ IF password # confirmPassword
       THEN auth' = [error |-> ErrPasswords, isLoading |-> FALSE, pending |-> <<>>]
       ELSE auth' = [error |-> Null, isLoading |-> TRUE,
                     pending |-> <<[kind |-> "signup", name |-> name, email |-> email,
                                    password |-> password, users |-> users]>>]
    /\ UNCHANGED <<now, apiKey, storageFull, store, isLoggedIn, users, view, patients,
                   selectedPatientId, pdv, uploads, cmps>>

\* setItem('isLoggedIn', 'true') is called outside any try: when the store
\* takes no more data the call may throw
FlagWriteOutcomes == IF storageFull THEN BOOLEAN ELSE {TRUE}

\* the render after setIsLoggedIn(true) and the login-flag effect, st being
\* localStorage after the effects that run before it.  An error thrown by
\* an effect is caught by no error boundary: React unmounts the whole tree,
\* after which no continuation reaches any state.
LoginCommitted(st, flagOk) ==
    /\ isLoggedIn' = TRUE
    /\ auth' = InitialAuth
    /\ IF flagOk
       THEN /\ store' = PersistLoginFlag(st, TRUE)
            /\ UNCHANGED <<view, uploads, cmps>>
       ELSE /\ store' = st
            /\ view' = "crashed"
            /\ uploads' = [i \in 1..Len(uploads) |-> Gone]
            /\ cmps' = [i \in 1..Len(cmps) |-> Gone]

\* handleLogin after its delay
handleLogin ==
    /\ auth.pending # <<>>
    /\ auth.pending[1].kind = "login"
    /\ LET req == auth.pending[1] IN
       IF CredentialsMatch(req.users, req.email, req.password)
       THEN \E flagOk \in FlagWriteOutcomes : LoginCommitted(store, flagOk)
       ELSE /\ auth' = [error |-> ErrCredentials, isLoading |-> FALSE, pending |-> <<>>]
            /\ UNCHANGED <<isLoggedIn, store, view, uploads, cmps>>
    /\ UNCHANGED <<now, apiKey, storageFull, users, patients, selectedPatientId, pdv>>

\* a faulty variant of handleSignUp: the email is not looked up
handleSignUp_NoCheck ==
    /\ auth.pending # <<>>
    /\ auth.pending[1].kind = "signup"
    /\ LET req == auth.pending[1] IN
            /\ users' = Append(users, [id |-> Id("u", now), name |-> req.name,
                                       email |-> req.email, password |-> req.password])
            /\ isLoggedIn' = TRUE
            /\ store' = PersistLoginFlag(PersistUsers(store, users', ~storageFull), TRUE)
            /\ auth' = InitialAuth
    /\ UNCHANGED <<now, apiKey, storageFull, view, patients, selectedPatientId, pdv, uploads, cmps>>

\* handleSignUp after its delay
handleSignUp ==
    /\ auth.pending # <<>>
    /\ auth.pending[1].kind = "signup"
    /\ LET req == auth.pending[1] IN
       IF EmailExists(req.users, req.email)
       THEN /\ auth' = [error |-> ErrEmailExists, isLoading |-> FALSE, pending |-> <<>>]
            /\ UNCHANGED <<isLoggedIn, store, users, view, uploads, cmps>>
       ELSE /\ users' = Append(users, [id |-> Id("u", now), name |-> req.name,
                                       email |-> req.email, password |-> req.password])
            /\ \E flagOk \in FlagWriteOutcomes :
                   LoginCommitted(PersistUsers(store, users', ~storageFull), flagOk)
    /\ UNCHANGED <<now, apiKey, storageFull, patients, selectedPatientId, pdv>>

\* a faulty variant of handleLogout: the session's patients are discarded
\* with the login
handleLogout_DropPatients ==
    /\ isLoggedIn /\ view # "crashed"
    /\ isLoggedIn' = FALSE
    /\ view' = "dashboard"
    /\ selectedPatientId' = NullId
    /\ patients' = <<>>
    /\ store' = [PersistLoginFlag(store, FALSE) EXCEPT !.patients = NoItem]
    /\ pdv' = InitialPdv
    /\ auth' = InitialAuth
    /\ uploads' = Unmount(uploads)
    /\ cmps' = Unmount(cmps)
    /\ UNCHANGED <<now, apiKey, storageFull, users>>

\* Logout: the three setState calls and the login-flag effect's removeItem;
\* AuthView replaces the main view, whose workflows lose their component
handleLogout ==
    /\ isLoggedIn /\ view # "crashed"
    /\ isLoggedIn' = FALSE
    /\ view' = "dashboard"
    /\ selectedPatientId' = NullId
    /\ store' = PersistLoginFlag(store, FALSE)
    /\ pdv' = InitialPdv
    /\ auth' = InitialAuth
    /\ uploads' = Unmount(uploads)
    /\ cmps' = Unmount(cmps)
    /\ UNCHANGED <<now, apiKey, storageFull, users, patients>>

(***************************************************************************)
(* PatientDetailView: the upload workflow.                                 *)
(***************************************************************************)
\* setPatients(prev => prev.map(p => p.id === updatedPatient.id ? updatedPatient : p))
\* a faulty variant of handleUpdatePatient: the id test is left out
handleUpdatePatient_ReplaceAll(prev, updatedPatient) ==
    [i \in 1..Len(prev) |-> updatedPatient]

handleUpdatePatient(prev, updatedPatient) ==
    [i \in 1..Len(prev) |->
        IF prev[i].id = updatedPatient.id THEN updatedPatient ELSE prev[i]]

\* the LesionImage built after both awaits
NewLesionImage(file, t, analysisResult) ==
    [id |-> Id("img_", t), file |-> <<file>>, imageDataUrl |-> FileToDataUrl(file),
     timestamp |-> DateOf(t), analysisResult |-> analysisResult]

\* { ...patient, lesionImages: [newLesionImage, ...patient.lesionImages] }
UpdatedPatient(patient, newLesionImage) ==
    [patient EXCEPT !.lesionImages = <<newLesionImage>> \o @]

\* the catch and finally blocks of handleImageUpload, run by a workflow
\* whose component instance is mounted (live) or not
UploadFailed(u, message) ==
    /\ uploads' = [uploads EXCEPT ![u].status = "failed", ![u].error = message]
    /\ pdv' = IF uploads[u].live
              THEN [pdv EXCEPT !.error = message, !.isUploading = FALSE]
              ELSE pdv

\* a faulty variant of StartUpload: the request is built without looking
\* at the API key
StartUpload_NoKeyCheck(file, readOk) ==
    /\ DetailMounted
    /\ uploads' = Append(uploads,
           [status |-> IF readOk THEN "requested" ELSE "hung", live |-> TRUE,
            file |-> file, patient |-> patients[SelectedIndex], error |-> Null,
            image |-> <<>>])
    /\ pdv' = [pdv EXCEPT !.error = Null, !.isUploading = TRUE]
    /\ UNCHANGED <<now, apiKey, storageFull, store, isLoggedIn, users, view, patients,
                   selectedPatientId, auth, cmps>>

\* ImageUploader.handleFileChange -> handleImageUpload(file), up to the
\* request of analyzeSkinCondition.  The handler closes over the patient
\* of the render it belongs to.  Without an API key analyzeSkinCondition
\* throws at once; when the FileReader of fileToGenerativePart ends
\* without a string its promise never settles.
StartUpload(file, readOk) ==
    /\ DetailMounted
    /\ LET flow == [status |-> "requested", live |-> TRUE, file |-> file,
                    patient |-> patients[SelectedIndex], error |-> Null,
                    image |-> <<>>]
       IN  IF ~apiKey
           THEN /\ uploads' = Append(uploads, [flow EXCEPT !.status = "failed",
                                                           !.error = ErrApiKey])
                /\ pdv' = [pdv EXCEPT !.error = ErrApiKey, !.isUploading = FALSE]
           ELSE /\ uploads' = Append(uploads,
                        [flow EXCEPT !.status = IF readOk THEN "requested" ELSE "hung"])
                /\ pdv' = [pdv EXCEPT !.error = Null, !.isUploading = TRUE]
    /\ UNCHANGED <<now, apiKey, storageFull, store, isLoggedIn, users, view, patients,
                   selectedPatientId, auth, cmps>>

\* a faulty variant of UploadResolve: the image is merged before its
\* payload is encoded, so a failing encode leaves a partial record behind
UploadResolve_MergeFirst(u, text, encodeOk) ==
    /\ uploads[u].status = "requested"
    /\ IF ParseThrows(text)
       THEN /\ UploadFailed(u, ErrFormat)
            /\ UNCHANGED <<patients, store>>
       ELSE LET img == NewLesionImage(uploads[u].file, now, ParseAnalysis(text))
                partial == [img EXCEPT !.imageDataUrl = CorruptDataUrl]
            IN
            /\ patients' = handleUpdatePatient(patients,
                                UpdatedPatient(uploads[u].patient,
                                               IF encodeOk THEN img ELSE partial))
            /\ store' = PersistPatients(store, patients', ~storageFull)
            /\ IF encodeOk
               THEN /\ uploads' = [uploads EXCEPT ![u].status = "success",
                                                  ![u].image = <<img>>]
                    /\ pdv' = IF uploads[u].live
                              THEN [pdv EXCEPT !.isUploading = FALSE] ELSE pdv
               ELSE UploadFailed(u, ErrUnknown)
    /\ UNCHANGED <<now, apiKey, storageFull, isLoggedIn, users, view, selectedPatientId, auth, cmps>>

\* generateContent resolves with response text: the rest of
\* analyzeSkinCondition and of handleImageUpload.  encodeOk: the FileReader
\* of fileToDataUrl loads the file.
UploadResolve(u, text, encodeOk) ==
    /\ uploads[u].status = "requested"
    /\ IF ParseThrows(text)
       THEN /\ UploadFailed(u, ErrFormat)
            /\ UNCHANGED <<patients, store>>
       ELSE IF ~encodeOk
       THEN /\ UploadFailed(u, ErrUnknown)
            /\ UNCHANGED <<patients, store>>
       ELSE LET img == NewLesionImage(uploads[u].file, now, ParseAnalysis(text)) IN
            /\ patients' = handleUpdatePatient(patients,
                                UpdatedPatient(uploads[u].patient, img))
            /\ store' = PersistPatients(store, patients', ~storageFull)
            /\ uploads' = [uploads EXCEPT ![u].status = "success", ![u].image = <<img>>]
            /\ pdv' = IF uploads[u].live THEN [pdv EXCEPT !.isUploading = FALSE] ELSE pdv
    /\ UNCHANGED <<now, apiKey, storageFull, isLoggedIn, users, view, selectedPatientId, auth, cmps>>

\* generateContent rejects (network, quota, service error)
UploadReject(u) ==
    /\ uploads[u].status = "requested"
    /\ UploadFailed(u, ErrNetwork)
    /\ UNCHANGED <<now, apiKey, storageFull, store, isLoggedIn, users, view, patients,
                   selectedPatientId, auth, cmps>>

(***************************************************************************)
(* PatientDetailView: the comparison workflow.                             *)
(***************************************************************************)
\* the ids offered by the two <select> elements
ImageIds(patient) ==
    {patient.lesionImages[i].id : i \in 1..Len(patient.lesionImages)}

\* the "Compare Lesions" section is rendered
CompareSectionShown ==
    DetailMounted /\ Len(patients[SelectedIndex].lesionImages) >= 2

setCompareId1(id) ==
    /\ CompareSectionShown
    /\ id \in ImageIds(patients[SelectedIndex])
    /\ pdv' = [pdv EXCEPT !.compareId1 = id]
    /\ UNCHANGED <<now, apiKey, storageFull, store, isLoggedIn, users, view, patients,
                   selectedPatientId, auth, uploads, cmps>>

setCompareId2(id) ==
    /\ CompareSectionShown
    /\ id \in ImageIds(patients[SelectedIndex])
    /\ pdv' = [pdv EXCEPT !.compareId2 = id]
    /\ UNCHANGED <<now, apiKey, storageFull, store, isLoggedIn, users, view, patients,
                   selectedPatientId, auth, uploads, cmps>>

\* a faulty variant of CompareEnabled: the two ids are not compared
CompareEnabled_AnySelection(s) ==
    /\ s.compareId1 # NullId
    /\ s.compareId2 # NullId
    /\ ~s.isComparing

\* the Compare button is not disabled
CompareEnabled(s) ==
    /\ s.compareId1 # NullId
    /\ s.compareId2 # NullId
    /\ ~s.isComparing
    /\ s.compareId1 # s.compareId2

\* a faulty variant of FileOf: the payload is decoded whether or not the
\* image has a file
FileOf_AlwaysDecode(image, filename) == DataUrlToFile(image.imageDataUrl, filename)

\* image.file || (await dataUrlToFile(image.imageDataUrl, filename))
FileOf(image, filename) ==
    IF image.file # <<>> THEN image.file[1]
    ELSE DataUrlToFile(image.imageDataUrl, filename)

\* a faulty variant of DecodeFails: a rejected fetch goes unnoticed
DecodeFails_Never(image) == FALSE

\* dataUrlToFile is called for the image and its fetch rejects
DecodeFails(image) == image.file = <<>> /\ ~FetchOk(image.imageDataUrl)

\* a faulty variant of CompareRequest: the later image is sent first
CompareRequest_Swapped(imageFile1, imageFile2) ==
    [before |-> imageFile2, after |-> imageFile1]

\* the request compareLesions sends: the parts in the order
\* (before: imageFile1, after: imageFile2)
CompareRequest(imageFile1, imageFile2) == [before |-> imageFile1, after |-> imageFile2]

\* the catch and finally blocks of handleCompare
CompareFailed(c, message) ==
    /\ cmps' = [cmps EXCEPT ![c].status = "failed", ![c].error = message]
    /\ pdv' = IF cmps[c].live
              THEN [pdv EXCEPT !.error = message, !.isComparing = FALSE]
              ELSE pdv

\* a faulty variant of handleCompare: the result of an earlier comparison
\* is not cleared
handleCompare_KeepResult ==
    /\ CompareSectionShown
    /\ CompareEnabled(pdv)
    /\ LET patient == patients[SelectedIndex]
           i1 == FindIndex(patient.lesionImages, pdv.compareId1)
           i2 == FindIndex(patient.lesionImages, pdv.compareId2)
       IN  /\ i1 # 0 /\ i2 # 0
           /\ cmps' = Append(cmps,
                  [status |-> "started", live |-> TRUE,
                   compareId1 |-> pdv.compareId1, compareId2 |-> pdv.compareId2,
                   image1 |-> patient.lesionImages[i1],
                   image2 |-> patient.lesionImages[i2],
                   request |-> <<>>, error |-> Null, result |-> JsonNull])
           /\ pdv' = [pdv EXCEPT !.isComparing = TRUE, !.error = Null]
    /\ UNCHANGED <<now, apiKey, storageFull, store, isLoggedIn, users, view, patients,
                   selectedPatientId, auth, uploads>>

\* a click on Compare: handleCompare up to its first await
handleCompare ==
    /\ CompareSectionShown
    /\ CompareEnabled(pdv)
    /\ LET patient == patients[SelectedIndex]
           i1 == FindIndex(patient.lesionImages, pdv.compareId1)
           i2 == FindIndex(patient.lesionImages, pdv.compareId2)
       IN  /\ i1 # 0 /\ i2 # 0
           /\ cmps' = Append(cmps,
                  [status |-> "started", live |-> TRUE,
                   compareId1 |-> pdv.compareId1, compareId2 |-> pdv.compareId2,
                   image1 |-> patient.lesionImages[i1],
                   image2 |-> patient.lesionImages[i2],
                   request |-> <<>>, error |-> Null, result |-> JsonNull])
           /\ pdv' = [pdv EXCEPT !.isComparing = TRUE, !.comparisonResult = JsonNull,
                                 !.error = Null]
    /\ UNCHANGED <<now, apiKey, storageFull, store, isLoggedIn, users, view, patients,
                   selectedPatientId, auth, uploads>>

\* the two handles are obtained and compareLesions runs up to its request
CompareSend(c, readOk) ==
    /\ cmps[c].status = "started"
    /\ LET image1 == cmps[c].image1
           image2 == cmps[c].image2
       IN  IF DecodeFails(image1) \/ DecodeFails(image2)
           THEN CompareFailed(c, ErrNetwork)
           ELSE IF ~apiKey
           THEN CompareFailed(c, ErrApiKey)
           ELSE /\ cmps' = [cmps EXCEPT
                        ![c].status = IF readOk THEN "requested" ELSE "hung",
                        ![c].request =
                            IF readOk
                            THEN <<CompareRequest(
                                     FileOf(image1, <<"img1_", image1.id.n>>),
                                     FileOf(image2, <<"img2_", image2.id.n>>))>>
                            ELSE <<>>]
                /\ pdv' = pdv
    /\ UNCHANGED <<now, apiKey, storageFull, store, isLoggedIn, users, view, patients,
                   selectedPatientId, auth, uploads>>

\* a faulty variant of CompareResolve: the assessment is recorded on the
\* second image of the patient, which the patients effect then saves
CompareResolve_Recording(c, text) ==
    /\ cmps[c].status = "requested"
    /\ IF ParseThrows(text)
       THEN /\ CompareFailed(c, ErrFormatCmp)
            /\ UNCHANGED <<patients, store>>
       ELSE LET recorded ==
                    [i \in 1..Len(patients) |->
                        [patients[i] EXCEPT !.lesionImages =
                            [k \in 1..Len(patients[i].lesionImages) |->
                                IF patients[i].lesionImages[k].id = cmps[c].compareId2
                                THEN [patients[i].lesionImages[k] EXCEPT
                                         !.analysisResult = ParseComparison(text)]
                                ELSE patients[i].lesionImages[k]]]]
            IN
            /\ patients' = recorded
            /\ store' = PersistPatients(store, recorded, ~storageFull)
            /\ cmps' = [cmps EXCEPT ![c].status = "success",
                                    ![c].result = ParseComparison(text)]
            /\ pdv' = IF cmps[c].live
                      THEN [pdv EXCEPT !.comparisonResult = ParseComparison(text),
                                       !.isComparing = FALSE]
                      ELSE pdv
    /\ UNCHANGED <<now, apiKey, storageFull, isLoggedIn, users, view,
                   selectedPatientId, auth, uploads>>

\* generateContent resolves with response text
CompareResolve(c, text) ==
    /\ cmps[c].status = "requested"
    /\ IF ParseThrows(text)
       THEN CompareFailed(c, ErrFormatCmp)
       ELSE /\ cmps' = [cmps EXCEPT ![c].status = "success",
                                    ![c].result = ParseComparison(text)]
            /\ pdv' = IF cmps[c].live
                      THEN [pdv EXCEPT !.comparisonResult = ParseComparison(text),
                                       !.isComparing = FALSE]
                      ELSE pdv
    /\ UNCHANGED <<now, apiKey, storageFull, store, isLoggedIn, users, view, patients,
                   selectedPatientId, auth, uploads>>

\* a faulty variant of CompareReject: a rejected request is sent again
CompareReject_Retry(c) ==
    /\ cmps[c].status = "requested"
    /\ cmps' = [cmps EXCEPT ![c].status = "started", ![c].request = <<>>]
    /\ UNCHANGED <<now, apiKey, storageFull, store, isLoggedIn, users, view, patients,
                   selectedPatientId, pdv, auth, uploads>>

\* generateContent rejects
CompareReject(c) ==
    /\ cmps[c].status = "requested"
    /\ CompareFailed(c, ErrNetwork)
    /\ UNCHANGED <<now, apiKey, storageFull, store, isLoggedIn, users, view, patients,
                   selectedPatientId, auth, uploads>>

(***************************************************************************)
(* The specification.                                                      *)
(***************************************************************************)
PatientNames == {"", "Ann Lee"}
BirthDates == {"", "2001-02-03"}

\* ids a <select> can carry: those of saved and of new images
SelectableIds == {Id("img_", n) : n \in {50, 100, 200} \cup (T0..(T0 + MaxTicks))}

\* what the user does on the dashboard and in a patient's detail view
Browse ==
    \/ \E i \in 1..Len(patients) : handleSelectPatient(i)
    \/ handleBackToDashboard

\* the steps of the upload workflows, at most n of them started
Upload(n) ==
    \/ /\ Len(uploads) < n
       /\ \E file \in Files, readOk \in BOOLEAN : StartUpload(file, readOk)
    \/ \E u \in 1..Len(uploads), text \in ResponseTexts, encodeOk \in BOOLEAN :
           UploadResolve(u, text, encodeOk)
    \/ \E u \in 1..Len(uploads) : UploadReject(u)

\* the steps of the comparison workflows, at most n of them started
CompareUpTo(n) ==
    \/ \E id \in SelectableIds : setCompareId1(id)
    \/ \E id \in SelectableIds : setCompareId2(id)
    \/ Len(cmps) < n /\ handleCompare
    \/ \E c \in 1..Len(cmps), readOk \in BOOLEAN : CompareSend(c, readOk)
    \/ \E c \in 1..Len(cmps), text \in ResponseTexts : CompareResolve(c, text)
    \/ \E c \in 1..Len(cmps) : CompareReject(c)

Compare == CompareUpTo(MaxCompares)

\* the steps of AuthView
Authenticate ==
    \/ \E email \in Emails, password \in Passwords : SubmitLogin(email, password)
    \/ \E email \in Emails, password, confirm \in Passwords :
           SubmitSignUp("Dr. New", email, password, confirm)
    \/ handleLogin
    \/ handleSignUp

AddPatient ==
    /\ Len(patients) < MaxPatients
    /\ \E name \in PatientNames, dob \in BirthDates : handleAddPatient(name, dob)

\* the whole program
Next ==
    \/ Tick
    \/ Reload
    \/ StorageFills
    \/ StorageFrees
    \/ Browse
    \/ handleLogout
    \/ AddPatient
    \/ Authenticate
    \/ Upload(MaxUploads)
    \/ Compare

Spec == Init /\ [][Next]_vars

\* a logged-in session in which patients are created and images uploaded
NextUpload == Tick \/ Browse \/ AddPatient \/ Upload(MaxUploads)
SpecUpload == InitFrom({ReturningStore}, FALSE) /\ [][NextUpload]_vars

\* a logged-in session over the saved patients in which images are
\* uploaded and compared
NextCompare == Browse \/ Upload(MaxCompareUploads) \/ Compare
SpecCompare == InitFrom({ReturningStore}, FALSE) /\ [][NextCompare]_vars


\* the persistence scenario: a returning or a first-time user adds patients
\* and images while the quota comes and goes, and reloads the page
NextPersist ==
    Reload \/ StorageFills \/ StorageFrees \/ Browse \/ AddPatient
        \/ Upload(MaxCompareUploads)
SpecPersist ==
    (\E full \in BOOLEAN : InitFrom({FreshStore, ReturningStore}, full))
        /\ [][NextPersist]_vars

\* a user list an earlier session saved that lacks the default user, and
\* the empty list the users effect writes before the default user is seeded
ForeignUser ==
    [id |-> Id("u", 7), name |-> "Dr. Other", email |-> "new@clinic.com",
     password |-> "secret"]
ForeignUsersStore ==
    [users |-> JsonText(<<ForeignUser>>), patients |-> NoItem, isLoggedIn |-> NoItem]
EmptyUsersStore ==
    [users |-> JsonText(<<>>), patients |-> Garbage, isLoggedIn |-> NoItem]
SessionStores == InitialStores \cup {ForeignUsersStore, EmptyUsersStore}

\* the session scenario: from any store the page is opened, users log out,
\* log in and sign up, patients and images are added, the quota comes and
\* goes and the page is reloaded
NextSession ==
    Reload \/ StorageFills \/ StorageFrees \/ handleLogout \/ Authenticate
        \/ Browse \/ AddPatient \/ Upload(MaxCompareUploads)
SpecSession ==
    (\E full \in BOOLEAN : InitFrom(SessionStores, full)) /\ [][NextSession]_vars

\* handleUpdatePatient as an operation on its inputs: the session of the
\* saved patients with one pending upload whose updatedPatient is drawn
\* from a patient of the list and a patient whose id no patient has
UnknownPatient == [initialPatients[2] EXCEPT !.id = Id("p", 999)]
UpdateTargets == {SavedPatients[1].id, UnknownPatient.id}
InitAppend ==
    /\ now = T0
    /\ apiKey = TRUE
    /\ storageFull = FALSE
    /\ isLoggedIn = MountIsLoggedIn(ReturningStore)
    /\ users = MountUsers(ReturningStore)
    /\ patients = MountPatients(ReturningStore)
    /\ store = MountStore(ReturningStore, TRUE, TRUE, TRUE)
    /\ view = "dashboard"
    /\ selectedPatientId = NullId
    /\ pdv = InitialPdv
    /\ auth = InitialAuth
    /\ \E id \in UpdateTargets, file \in Files :
           uploads = <<[status |-> "requested", live |-> FALSE, file |-> file,
                        patient |-> [MountPatients(ReturningStore)[1] EXCEPT !.id = id],
                        error |-> Null, image |-> <<>>]>>
    /\ cmps = <<>>
NextAppend == Browse \/ Upload(MaxUploads)
SpecAppend == InitAppend /\ [][NextAppend]_vars

\* the repeated-comparison scenario: over the saved patients one
\* comparison is run after another, the view being left and opened again
NextRecompare == Browse \/ CompareUpTo(MaxRecompares)
SpecRecompare ==
    (\E full \in BOOLEAN : InitFrom({ReturningStore}, full)) /\ [][NextRecompare]_vars

(***************************************************************************)
(* Properties of the upload workflow.                                      *)
(***************************************************************************)
\* an upload that has started and has not reached success or failed
InFlight(flow) == flow.status \in {"requested", "hung"}

\* how often x occurs in seq
Occurrences(seq, x) == Cardinality({i \in 1..Len(seq) : seq[i] = x})

\* the lesionImages of the patient an upload was started for
TargetImages(ps, flow) ==
    LET k == FindIndex(ps, flow.patient.id) IN
    IF k = 0 THEN <<>> ELSE ps[k].lesionImages

\* upload u reaches success in this step
Succeeds(u) ==
    /\ u <= Len(uploads)
    /\ uploads[u].status = "requested"
    /\ uploads'[u].status = "success"

\* upload u reaches failed in this step, from its request or as it starts
Fails(u) ==
    /\ u <= Len(uploads')
    /\ uploads'[u].status = "failed"
    /\ u <= Len(uploads) => uploads[u].status = "requested"

\* C1: exactly-once merge.  Once no upload is in flight, the image of every
\* upload that succeeded is in the lesionImages of its target patient, as
\* often as uploads with that very image succeeded for that patient.
C1_ExactlyOnceMerge ==
    (\A u \in 1..Len(uploads) : ~InFlight(uploads[u])) =>
        \A u \in 1..Len(uploads) :
            uploads[u].status = "success" =>
                Occurrences(TargetImages(patients, uploads[u]), uploads[u].image[1])
                    = Cardinality({v \in 1..Len(uploads) :
                          /\ uploads[v].status = "success"
                          /\ uploads[v].patient.id = uploads[u].patient.id
                          /\ uploads[v].image = uploads[u].image})

DistinctTargets ==
    \A u, v \in 1..Len(uploads) :
        (u # v /\ uploads[u].status # "gone" /\ uploads[v].status # "gone") =>
            uploads[u].patient.id # uploads[v].patient.id

C4_AbandonedResultDropped ==
    [][\A u \in 1..MaxUploads + 1 :
          (Succeeds(u) /\ ~uploads[u].live) => patients' = patients]_vars

\* C5: every append puts the new image at index 0 and keeps the images the
\* patient had, in their order, behind it.
C5_NewestFirst ==
    [][\A u \in 1..MaxUploads + 1 :
          Succeeds(u) =>
              TargetImages(patients', uploads[u]) =
                  <<uploads'[u].image[1]>> \o TargetImages(patients, uploads[u])]_vars

\* C6: a created patient has an id no earlier patient has, and is put at
\* position 0 in front of the earlier patients.
C6_FreshPatientId ==
    [][Len(patients') = Len(patients) + 1 =>
          /\ \A i \in 1..Len(patients) : patients[i].id # patients'[1].id
          /\ patients' = <<patients'[1]>> \o patients]_vars


(***************************************************************************)
(* Properties of the comparison workflow.                                  *)
(***************************************************************************)
\* a comparison workflow of this page
Started(flow) == flow.status # "gone"

\* a step of some comparison workflow: one starts, or one changes status
CompareStep ==
    \/ Len(cmps') > Len(cmps)
    \/ \E c \in 1..Len(cmps) :
           cmps'[c].status # cmps[c].status /\ cmps'[c].status # "gone"

\* the bytes an image stands for, whether it holds a live handle or not
ImageBytes(image) ==
    IF image.file # <<>> THEN image.file[1].bytes ELSE image.imageDataUrl.b64

\* C7: no comparison workflow (so no decode and no compare request) exists
\* for a selection whose two ids are equal, and a click cannot start one.
C7_SameImageRejected ==
    /\ \A c \in 1..Len(cmps) :
           Started(cmps[c]) =>
               /\ cmps[c].compareId1 # cmps[c].compareId2
               /\ cmps[c].image1.id # cmps[c].image2.id
    /\ (pdv.compareId1 = pdv.compareId2) => ~ENABLED handleCompare

\* the same image is selected twice in a view that offers the comparison
C7_Witness ==
    /\ CompareSectionShown
    /\ pdv.compareId1 # NullId
    /\ pdv.compareId1 = pdv.compareId2
    /\ ~pdv.isComparing
    /\ cmps = <<>>

\* C8: the request carries the image selected first as before and the image
\* selected second as after, whatever their timestamps and positions.
C8_SelectionOrderKept ==
    \A c \in 1..Len(cmps) :
        (Started(cmps[c]) /\ cmps[c].request # <<>>) =>
            /\ cmps[c].image1.id = cmps[c].compareId1
            /\ cmps[c].image2.id = cmps[c].compareId2
            /\ cmps[c].request[1].before.bytes = ImageBytes(cmps[c].image1)
            /\ cmps[c].request[1].after.bytes = ImageBytes(cmps[c].image2)

\* for the patient with images [img_200, img_100], img_100 was selected
\* first and img_200 second, and the request has been sent
C8_Witness ==
    \E c \in 1..Len(cmps) :
        /\ Started(cmps[c])
        /\ cmps[c].compareId1 = Id("img_", 100)
        /\ cmps[c].compareId2 = Id("img_", 200)
        /\ cmps[c].request # <<>>
        /\ cmps[c].request[1].before.bytes = FileB.bytes
        /\ cmps[c].request[1].after.bytes = FileA.bytes
        /\ cmps[c].image1.timestamp.ms < cmps[c].image2.timestamp.ms

\* C9: no step of a comparison workflow, succeeding or failing, changes
\* the patients, the users or anything in localStorage.
C9_CompareChangesNothing ==
    [][CompareStep =>
          /\ patients' = patients
          /\ users' = users
          /\ store' = store]_vars

\* one comparison has succeeded and its result is held by the view
C9_Witness ==
    \E c \in 1..Len(cmps) :
        /\ cmps[c].status = "success"
        /\ cmps[c].result = FullComparison
        /\ pdv.comparisonResult = FullComparison
        /\ store.patients = StringifyPatients(SerializablePatients(patients))


(***************************************************************************)
(* Properties of persistence.                                              *)
(***************************************************************************)
\* the patients with the file of every image absent
WithoutHandles(ps) ==
    [i \in 1..Len(ps) |->
        [ps[i] EXCEPT !.lesionImages =
            [j \in 1..Len(ps[i].lesionImages) |->
                [ps[i].lesionImages[j] EXCEPT !.file = <<>>]]]]

\* localStorage holds the save of the current patients
PatientsSaved == store.patients = StringifyPatients(SerializablePatients(patients))

\* C10: a reload that follows the save of the patients, nothing changed in
\* between, yields the same patients in the same order with the same
\* images (ids, payloads, analysis results, timestamps as instants), every
\* image's file being absent.
C10_SaveReloadRoundTrip ==
    [][(Reload /\ PatientsSaved) => patients' = WithoutHandles(patients)]_vars

\* the page was reloaded after an upload had added an image to a patient:
\* the image is back with its instant and without its file, next to a
\* patient added in the session
C10_Witness ==
    /\ Len(uploads) = 1 /\ uploads[1] = Gone
    /\ Len(patients) = 3
    /\ \E i \in 1..Len(patients) :
           /\ Len(patients[i].lesionImages) = 3
           /\ patients[i].lesionImages[1].id.n >= T0
           /\ patients[i].lesionImages[1].file = <<>>
           /\ patients[i].lesionImages[1].timestamp = DateOf(T0)
    /\ PatientsSaved


\* the images in the text stored under the patients key
StoredImages ==
    IF store.patients.kind # "json" THEN {}
    ELSE UNION {{store.patients.val[i].lesionImages[j] :
                    j \in 1..Len(store.patients.val[i].lesionImages)} :
                i \in 1..Len(store.patients.val)}

\* C11: in every reachable state no image stored under the patients key has
\* a file field.
C11_NoHandleStored == \A img \in StoredImages : "file" \notin DOMAIN img

\* an image uploaded in this session is held with its file in memory and
\* has been saved
C11_Witness ==
    /\ \E i \in 1..Len(patients) :
           /\ patients[i].lesionImages # <<>>
           /\ patients[i].lesionImages[1].file # <<>>
           /\ StripFile(patients[i].lesionImages[1]).id
                  \in {img.id : img \in StoredImages}
    /\ PatientsSaved

\* the steps that mutate a collection: a sign-up that adds a user, a
\* patient creation, an upload that reaches success
UserAdded == handleSignUp /\ Len(users') = Len(users) + 1
PatientAdded == AddPatient
ImageAppended == \E u \in 1..MaxUploads + 1 : Succeeds(u)

UsersSaved == store.users = StringifyUsers(users)

C13_FailingSaveSwallowed ==
    [][storageFull =>
          /\ UserAdded =>
                /\ store'.users = store.users
                /\ isLoggedIn' /\ auth'.error = Null
                /\ view' # "crashed"
                /\ users'[Len(users')].email = auth.pending[1].email
          /\ PatientAdded =>
                /\ store'.patients = store.patients
                /\ Len(patients') = Len(patients) + 1
          /\ \A u \in 1..MaxUploads + 1 :
                Succeeds(u) =>
                    /\ store'.patients = store.patients
                    /\ uploads'[u].error = Null
                    /\ pdv'.error = pdv.error
                    /\ uploads[u].live => ~pdv'.isUploading
                    /\ uploads'[u].image[1] \in
                           {TargetImages(patients', uploads[u])[k] :
                               k \in {1, 2, 3, 4} \cap
                                     DOMAIN TargetImages(patients', uploads[u])}]_vars

\* every image of ps lacks its file
NoHandles(ps) ==
    \A i \in 1..Len(ps) : \A j \in 1..Len(ps[i].lesionImages) :
        ps[i].lesionImages[j].file = <<>>

\* C14: a session starts from the fallback when the key is absent or its
\* text cannot be parsed (the two seeded patients; no users, to which the
\* default user is then added), and otherwise from exactly the stored
\* value: the patients whose serialization is the stored text, and the
\* stored users (plus the default user when it is missing).
C14_LoadOrFallback ==
    [][Reload =>
          /\ IF store.patients.kind \in {"absent", "garbage"}
             THEN patients' = initialPatients
             ELSE /\ StringifyPatients(SerializablePatients(patients')) = store.patients
                  /\ NoHandles(patients')
          /\ IF store.users.kind \in {"absent", "garbage"}
             THEN users' = <<defaultUser>>
             ELSE users' = EnsureDefaultUser(store.users.val)]_vars

\* the page was reloaded over a store whose patients text cannot be parsed,
\* after an upload had been started in memory: the session has the two
\* seeded patients again
C14_Witness ==
    /\ store.patients = Garbage
    /\ Len(uploads) = 1 /\ uploads[1] = Gone
    /\ patients = initialPatients
    /\ users = <<defaultUser>>


(***************************************************************************)
(* Properties of the users and of authentication.                          *)
(***************************************************************************)
\* the positions of us that hold this email
WithEmail(us, email) == {i \in 1..Len(us) : us[i].email = email}

\* C15: in every state of a session the users hold the default email, and
\* hold it once, whatever the store held when the page was opened.
C15_DefaultUserPresent == Cardinality(WithEmail(users, defaultUserEmail)) = 1

\* the page was opened over a saved user list without the default user and
\* reloaded later: the default user was added once, behind the saved user
C15_Witness ==
    /\ users = <<ForeignUser, defaultUser>>
    /\ UsersSaved
    /\ Len(uploads) = 1 /\ uploads[1] = Gone

\* no two users share an email
UniqueEmails(us) ==
    \A i, j \in 1..Len(us) : us[i].email = us[j].email => i = j

\* C16: users stay unique by email, and a sign-up with the email of an
\* existing user gives the duplicate-email error, adds no user and does not
\* log in.
C16_UniqueEmails ==
    [][/\ UniqueEmails(users) => UniqueEmails(users')
       /\ (handleSignUp /\ WithEmail(users, auth.pending[1].email) # {}) =>
              /\ auth'.error = ErrEmailExists
              /\ users' = users
              /\ ~isLoggedIn'
              /\ store' = store]_vars

\* a user signed up and logged out, and a second sign-up with the same
\* email was refused
C16_Witness ==
    /\ auth.error = ErrEmailExists
    /\ ~isLoggedIn
    /\ Len(users) = 2
    /\ users[2].id = Id("u", T0)

\* C17: a login logs the session in exactly when a user has the given email
\* and the given password; otherwise it gives the invalid-credentials error
\* and leaves isLoggedIn, users and patients as they were.
C17_LoginIffExactMatch ==
    [][handleLogin =>
          LET req == auth.pending[1]
              match == \E i \in 1..Len(users) :
                           /\ users[i].email = req.email
                           /\ users[i].password = req.password
          IN  /\ isLoggedIn' <=> match
              /\ ~match =>
                    /\ auth'.error = ErrCredentials
                    /\ isLoggedIn' = isLoggedIn
                    /\ users' = users
                    /\ patients' = patients]_vars

\* a login with the right email and a password of another user was refused
C17_Witness ==
    /\ auth.error = ErrCredentials
    /\ ~isLoggedIn
    /\ \E i, j \in 1..Len(users) : i # j /\ users[i].password # users[j].password


(***************************************************************************)
(* Properties of the operations on their inputs.                           *)
(***************************************************************************)
\* C18: an append for a patient id that no patient has fails with an error
\* its caller sees, and leaves the patients as they were: no upload whose
\* updatedPatient matches no patient ends in success.
C18_UnknownPatientFails ==
    [][\A u \in 1..MaxUploads + 1 :
          (/\ u <= Len(uploads)
           /\ uploads[u].status = "requested"
           /\ uploads'[u].status \in {"success", "failed"}
           /\ FindIndex(patients, uploads[u].patient.id) = 0) =>
              /\ uploads'[u].status = "failed"
              /\ uploads'[u].error # Null
              /\ patients' = patients]_vars


\* the fields the two response schemas require
AnalysisFields == {"conditionName", "confidence", "description", "recommendations"}
ComparisonFields ==
    {"changeSummary", "keyObservations", "recommendation",
     "updatedConditionAssessment", "postComparisonCondition"}

\* C19: analyze and compare return only values that have every required
\* field (a response that cannot be parsed or lacks a field makes them
\* fail): the image of every upload that succeeded carries a complete
\* analysis and every comparison that succeeded a complete result.
C19_ResultsComplete ==
    /\ \A u \in 1..Len(uploads) :
           uploads[u].status = "success" =>
               AnalysisFields \subseteq DOMAIN uploads[u].image[1].analysisResult
    /\ \A c \in 1..Len(cmps) :
           cmps[c].status = "success" =>
               ComparisonFields \subseteq DOMAIN cmps[c].result

\* C20: without an API key analyze and compare fail with the configuration
\* error before a request is built; the workflow that called them ends
\* failed and patients, users and localStorage stay as they were.
C20_NoKeyNoRequest ==
    [][~apiKey =>
          /\ \A u \in 1..Len(uploads') :
                 uploads'[u].status = "gone" \/
                     /\ uploads'[u].status = "failed"
                     /\ uploads'[u].error = ErrApiKey
                     /\ uploads'[u].image = <<>>
          /\ \A c \in 1..Len(cmps') :
                 cmps'[c].status = "gone" \/
                     /\ cmps'[c].request = <<>>
                     /\ cmps'[c].status \in {"started", "failed"}
                     /\ cmps'[c].status = "failed" =>
                            cmps'[c].error =
                                IF DecodeFails(cmps'[c].image1) \/ DecodeFails(cmps'[c].image2)
                                THEN ErrNetwork ELSE ErrApiKey
          /\ patients' = patients /\ users' = users /\ store' = store]_vars

\* without an API key an upload and a comparison have both ended failed
\* with the configuration error, which the view shows
C20_Witness ==
    /\ ~apiKey
    /\ \E u \in 1..Len(uploads) :
           uploads[u].status = "failed" /\ uploads[u].error = ErrApiKey
    /\ \E c \in 1..Len(cmps) :
           /\ cmps[c].status = "failed" /\ cmps[c].error = ErrApiKey
           /\ cmps[c].request = <<>> /\ cmps[c].live
    /\ pdv.error = ErrApiKey /\ ~pdv.isComparing /\ ~pdv.isUploading


(***************************************************************************)
(* Properties of the workflows' ends.                                      *)
(***************************************************************************)
\* a workflow that has reached success or failed, or was lost in a reload
Terminal(flow) == flow.status \in {"success", "failed", "gone"}

\* C21: every workflow that was started ends in success or failed: a
\* workflow that has not ended always has a step it can take, whatever the
\* outcome of its suspension points was, the FileReader that builds the
\* request included.
C21_WorkflowsCanEnd ==
    /\ \A u \in 1..Len(uploads) :
           ~Terminal(uploads[u]) =>
               ENABLED (\/ UploadReject(u)
                        \/ \E text \in ResponseTexts, encodeOk \in BOOLEAN :
                               UploadResolve(u, text, encodeOk))
    /\ \A c \in 1..Len(cmps) :
           ~Terminal(cmps[c]) =>
               ENABLED (\/ \E readOk \in BOOLEAN : CompareSend(c, readOk)
                        \/ \E text \in ResponseTexts : CompareResolve(c, text)
                        \/ CompareReject(c))


\* C22: the login flag tracks the login state: the flag key is present in
\* localStorage exactly when isLoggedIn is true, so that a page opened on
\* that store starts with the isLoggedIn it had.
C22_FlagTracksLogin ==
    /\ (store.isLoggedIn # NoItem) <=> isLoggedIn
    /\ MountIsLoggedIn(store) = isLoggedIn


(***************************************************************************)
(* Properties of the image history.                                        *)
(***************************************************************************)
\* the places (patient, position) of the images of ps
ImagePlaces(ps) ==
    UNION {{<<i, j>> : j \in 1..Len(ps[i].lesionImages)} : i \in 1..Len(ps)}

\* C23: no image id occurs at two places: neither in the lesionImages of
\* two patients nor twice in the lesionImages of one, uploads completing at
\* the same clock value included.
C23_ImageIdsUnique ==
    \A a, b \in ImagePlaces(patients) :
        patients[a[1]].lesionImages[a[2]].id = patients[b[1]].lesionImages[b[2]].id
            => a = b


(***************************************************************************)
(* Properties of the comparison's result.                                  *)
(***************************************************************************)
\* comparison c reaches failed, or success, in this step
CompareFails(c) ==
    /\ c <= Len(cmps)
    /\ cmps[c].status \in {"started", "requested"}
    /\ cmps'[c].status = "failed"

CompareSucceeds(c) ==
    /\ c <= Len(cmps)
    /\ cmps[c].status = "requested"
    /\ cmps'[c].status = "success"

\* C24 as stated: after a comparison that fails no result is held, its
\* message is shown and isComparing is cleared; after one that succeeds the
\* result held is the one its compare call returned.
C24_ResultOrErrorAlways ==
    [][\A c \in 1..MaxRecompares + 1 :
          /\ CompareFails(c) =>
                /\ pdv'.comparisonResult = JsonNull
                /\ cmps'[c].error # Null
                /\ pdv'.error = cmps'[c].error
                /\ ~pdv'.isComparing
          /\ CompareSucceeds(c) =>
                /\ pdv'.comparisonResult = cmps'[c].result
                /\ ~pdv'.isComparing]_vars

\* C24 as amended: the same, in the detail view that started the
\* comparison when that view is still mounted; the end of a comparison
\* whose view was left changes the state of no view.
C24_ResultOrErrorInItsView ==
    [][\A c \in 1..MaxRecompares + 1 :
          /\ CompareFails(c) =>
                /\ cmps'[c].error # Null
                /\ cmps'[c].result = JsonNull
                /\ IF cmps[c].live
                   THEN /\ pdv'.comparisonResult = JsonNull
                        /\ pdv'.error = cmps'[c].error
                        /\ ~pdv'.isComparing
                   ELSE pdv' = pdv
          /\ CompareSucceeds(c) =>
                IF cmps[c].live
                THEN /\ pdv'.comparisonResult = cmps'[c].result
                     /\ ~pdv'.isComparing
                ELSE pdv' = pdv]_vars

\* in one view a comparison succeeded and the next one failed: the view
\* shows the message and no result
C24_Witness ==
    /\ Len(cmps) = 2
    /\ cmps[1].status = "success" /\ cmps[1].live /\ cmps[1].result = FullComparison
    /\ cmps[2].status = "failed" /\ cmps[2].live
    /\ pdv.comparisonResult = JsonNull
    /\ pdv.error = cmps[2].error
    /\ ~pdv.isComparing


\* how far a workflow has come: started, request built, ended
Stage(flow) ==
    CASE flow.status = "started" -> 1
      [] flow.status \in {"requested", "hung"} -> 2
      [] OTHER -> 3

\* C25: inference calls are single-shot.  A workflow builds its request at
\* most once and never goes back: the request a comparison has sent stays
\* the one it sent, a workflow whose request was answered or rejected is at
\* its end, and a workflow that ended in failed or success stays there.
C25_SingleShot ==
    [][/\ \A u \in 1..Len(uploads) :
              uploads'[u].status # "gone" =>
                  /\ Stage(uploads'[u]) >= Stage(uploads[u])
                  /\ Stage(uploads[u]) = 3 =>
                         /\ uploads'[u].status = uploads[u].status
                         /\ uploads'[u].image = uploads[u].image
       /\ \A c \in 1..Len(cmps) :
              cmps'[c].status # "gone" =>
                  /\ Stage(cmps'[c]) >= Stage(cmps[c])
                  /\ cmps[c].request # <<>> => cmps'[c].request = cmps[c].request
                  /\ Stage(cmps[c]) = 3 =>
                         cmps'[c].status = cmps[c].status]_vars

\* an upload's request and a comparison's request were both rejected, and
\* both workflows are at failed
C25_Witness ==
    /\ \E u \in 1..Len(uploads) :
           uploads[u].status = "failed" /\ uploads[u].error = ErrNetwork
    /\ \E c \in 1..Len(cmps) :
           /\ cmps[c].status = "failed" /\ cmps[c].error = ErrNetwork
           /\ cmps[c].request # <<>>


\* C26: each handle of a compare request is the selected image's own file
\* when the image has one, and otherwise the file decoded from that image's
\* payload (its type and bytes those of the data URL); a comparison fails
\* in decoding only for an image without a file.
C26_HandleFromSelectedImage ==
    \A c \in 1..Len(cmps) :
        Started(cmps[c]) =>
            /\ cmps[c].request # <<>> =>
                  /\ cmps[c].request[1].before =
                         IF cmps[c].image1.file # <<>> THEN cmps[c].image1.file[1]
                         ELSE [name |-> <<"img1_", cmps[c].image1.id.n>>,
                               type |-> cmps[c].image1.imageDataUrl.mime,
                               bytes |-> cmps[c].image1.imageDataUrl.b64]
                  /\ cmps[c].request[1].after =
                         IF cmps[c].image2.file # <<>> THEN cmps[c].image2.file[1]
                         ELSE [name |-> <<"img2_", cmps[c].image2.id.n>>,
                               type |-> cmps[c].image2.imageDataUrl.mime,
                               bytes |-> cmps[c].image2.imageDataUrl.b64]
            /\ (cmps[c].status = "failed" /\ cmps[c].request = <<>> /\ apiKey) =>
                  \/ cmps[c].image1.file = <<>> /\ cmps[c].image1.imageDataUrl = CorruptDataUrl
                  \/ cmps[c].image2.file = <<>> /\ cmps[c].image2.imageDataUrl = CorruptDataUrl

\* an image uploaded in this session was compared with a saved one: the
\* request holds the picked file as before and a decoded file as after
C26_Witness ==
    \E c \in 1..Len(cmps) :
        /\ Started(cmps[c])
        /\ cmps[c].request # <<>>
        /\ cmps[c].image1.file # <<>>
        /\ cmps[c].image2.file = <<>>
        /\ cmps[c].request[1].before \in Files
        /\ cmps[c].request[1].after.name = <<"img2_", 200>>


\* the image has no file and its payload cannot be decoded
Undecodable(image) == image.file = <<>> /\ image.imageDataUrl = CorruptDataUrl

\* C27: a comparison one of whose images cannot be decoded never builds a
\* request; it ends failed with a message and without a result (shown so
\* by its view when that is mounted), and patients and localStorage stay
\* as they were.
C27_DecodeFailureEndsCompare ==
    [][\A c \in 1..Len(cmps) :
          (Started(cmps'[c]) /\
               (Undecodable(cmps[c].image1) \/ Undecodable(cmps[c].image2))) =>
              /\ cmps'[c].request = <<>>
              /\ cmps'[c].status \in {"started", "failed"}
              /\ CompareFails(c) =>
                    /\ cmps'[c].error # Null
                    /\ cmps'[c].result = JsonNull
                    /\ cmps[c].live =>
                          /\ pdv'.comparisonResult = JsonNull
                          /\ pdv'.error = cmps'[c].error
                          /\ ~pdv'.isComparing
                    /\ patients' = patients
                    /\ store' = store]_vars

\* with an API key, an image uploaded in this session was compared with a
\* saved image whose payload is damaged: the comparison failed before any
\* request and the view shows the message
C27_Witness ==
    /\ apiKey
    /\ \E c \in 1..Len(cmps) :
           /\ cmps[c].status = "failed" /\ cmps[c].live
           /\ cmps[c].image1.file # <<>>
           /\ Undecodable(cmps[c].image2)
           /\ cmps[c].request = <<>>
           /\ pdv.error = cmps[c].error
    /\ pdv.error = ErrNetwork
    /\ pdv.comparisonResult = JsonNull


(***************************************************************************)
(* Properties of patient creation.                                         *)
(***************************************************************************)
\* the patients created in a session (their ids come from the clock)
CreatedInSession(ps) == {i \in 1..Len(ps) : ps[i].id.n >= T0}

\* C28: a form whose name or dob is empty cannot be saved, so that no
\* patient created in a session has an empty name or dob.
C28_NameAndDobRequired ==
    /\ \A i \in CreatedInSession(patients) :
           patients[i].name # "" /\ patients[i].dob # ""
    /\ \A name \in PatientNames, dob \in BirthDates :
           (name = "" \/ dob = "") => ~ENABLED handleAddPatient(name, dob)

\* on the dashboard a patient has been created and another could be
C28_Witness ==
    /\ DashboardMounted
    /\ CreatedInSession(patients) # {}
    /\ Len(patients) < MaxPatients
    /\ ENABLED handleAddPatient("Ann Lee", "2001-02-03")


\* the images of ps, wherever they are
ImagesOf(ps) ==
    {ps[a[1]].lesionImages[a[2]] : a \in ImagePlaces(ps)}

\* C29: every image in a patient's lesionImages, and every image stored
\* under the patients key, carries an analysisResult that is not null,
\* whatever the model answered.
C29_AnalysisPresent ==
    /\ \A img \in ImagesOf(patients) : img.analysisResult # JsonNull
    /\ \A img \in StoredImages : img.analysisResult # JsonNull

\* the images of a sequence
Range(seq) == {seq[j] : j \in 1..Len(seq)}

\* C30: history is append-only.  No step of a session takes an image out
\* of the lesionImages of the patient that holds it (patients are only put
\* in front of the sequence, so the patient at i is later at i plus the
\* number of new patients).
C30_AppendOnly ==
    [][\A i \in 1..Len(patients) :
          LET k == i + Len(patients') - Len(patients) IN
          /\ k \in 1..Len(patients')
          /\ patients'[k].id = patients[i].id
          /\ Range(patients[i].lesionImages) \subseteq Range(patients'[k].lesionImages)]_vars


(***************************************************************************)
(* Properties of what the detail view shows.                               *)
(***************************************************************************)
\* patient.lesionImages.find(i => i.id === compareId): the image rendered
\* beside the result, looked up with the selection of the current render
compareImg(id) ==
    LET images == patients[SelectedIndex].lesionImages
        i == FindIndex(images, id)
    IN  IF i = 0 THEN Undefined ELSE images[i]

compareImg1 == compareImg(pdv.compareId1)
compareImg2 == compareImg(pdv.compareId2)

\* the result block of the "Compare Lesions" section is rendered
ResultShown == CompareSectionShown /\ pdv.comparisonResult # JsonNull

\* the comparisons started from the mounted view
LiveCompares == {c \in 1..Len(cmps) : cmps[c].status # "gone" /\ cmps[c].live}

\* C31: whenever a ComparisonResult is displayed, the images shown beside
\* it as "before" and "after" are the two images that were passed to the
\* compare call that produced it, whatever the selections are changed to
\* during or after the comparison.
C31_ShownImagesAreCompared ==
    ResultShown =>
        \A c \in LiveCompares :
            (\A d \in LiveCompares : d <= c) =>
                /\ compareImg1 = cmps[c].image1
                /\ compareImg2 = cmps[c].image2

\* the uploads started from the mounted view that have not reached
\* success or failed
PendingHere == {u \in 1..Len(uploads) : InFlight(uploads[u]) /\ uploads[u].live}

\* C32: the uploading state is accurate: while an upload started from the
\* mounted detail view has neither succeeded nor failed, the view's
\* isUploading flag is true, also when a second upload was started before
\* the first one ended.
C32_UploadingFlagAccurate ==
    PendingHere # {} => pdv.isUploading


(***************************************************************************)
(* Frame properties.                                                       *)
(***************************************************************************)
\* a patient record without its images
NonImageFields(patient) == [patient EXCEPT !.lesionImages = <<>>]

\* the positions at which two patient sequences of one length differ
ChangedPlaces(before, after) == {i \in 1..Len(before) : after[i] # before[i]}

\* C33: appending an image for patient X changes only X's lesionImages:
\* against the patient sequence just before the call, the number and the
\* order of the patients and every patient's non-image fields are the same,
\* and no patient other than X has a changed record.
C33_AppendChangesOnlyTarget ==
    [][\A u \in 1..MaxUploads + 1 :
          Succeeds(u) =>
              /\ Len(patients') = Len(patients)
              /\ \A i \in 1..Len(patients) :
                     NonImageFields(patients'[i]) = NonImageFields(patients[i])
              /\ Cardinality(ChangedPlaces(patients, patients')) <= 1]_vars

\* C34: while the session is logged out the patient collection and the
\* value stored under the patients key do not change; in particular an
\* upload that was in flight at the logout adds no image afterwards.  (A
\* reload starts another session, from the store.)
C34_LoggedOutPatientsFrozen ==
    [][~isLoggedIn =>
          \/ Reload
          \/ /\ patients' = patients
             /\ store'.patients = store.patients]_vars

\* C35: logout changes only the login flag (in the state and in the
\* store), the current view, reset to the dashboard, and the selected
\* patient, reset to none: the users and patients collections and the
\* values stored under the users and patients keys are what they were.
C35_LogoutFrame ==
    [][handleLogout =>
          /\ ~isLoggedIn' /\ store'.isLoggedIn = NoItem
          /\ view' = "dashboard"
          /\ selectedPatientId' = NullId
          /\ users' = users /\ patients' = patients
          /\ store'.users = store.users
          /\ store'.patients = store.patients]_vars

\* a user has logged out of a session in which an upload was started: the
\* collections and their stored values are still there
C35_Witness ==
    /\ ~isLoggedIn /\ store.isLoggedIn = NoItem
    /\ view = "dashboard" /\ selectedPatientId = NullId
    /\ \E u \in 1..Len(uploads) : uploads[u].status # "gone" /\ ~uploads[u].live
    /\ Len(users) > 0 /\ Len(patients) > 0
    /\ store.users # NoItem /\ store.patients # NoItem

====
